---- MODULE Spec2Model ----
(***************************************************************************)
(* The Flask backend of Stream-Schedule (src/backend/app.py): the User and *)
(* ScheduledContent tables, the cookie sessions of flask_login, and one    *)
(* action per route handler.  A request is one atomic step, except in      *)
(* SpecRace and SpecReuse, where update_content is split between its query *)
(* (line 165) and its commit (line 181), so that requests interleave.      *)
(***************************************************************************)
EXTENDS Integers, Sequences, FiniteSets, TLC

VARIABLES
    users,      \* table user: a sequence, the row of id i at index i
    contents,   \* table scheduled_content: a function from the ids in use to rows
    session,    \* per client cookie: the user id flask_login keeps in it, or NoUser
    inflight,   \* update_content requests between their query and their commit
    resp,       \* the last response sent: the handler, the caller, what it returned
    hist        \* history (no handler reads it): per user, the ids created and
                \* not deleted since, and the ids ever deleted; the fields in
                \* which the last commit of an update replaced a value that
                \* another request had committed after this one's query

vars == <<users, contents, session, inflight, resp, hist>>

(***************************************************************************)
(* Bounds of the model                                                     *)
(***************************************************************************)
\* The largest ScheduledContent.id handed out where several rows are studied
\* (SpecContent, SpecList, SpecUpdate) ...
MaxContentId == 2
\* ... and where one row is enough (Spec, SpecPlatforms, SpecRace, SpecReuse).
FewContentIds == 1

(***************************************************************************)
(* Values                                                                  *)
(***************************************************************************)
\* Python's None, JSON's null, SQL's NULL.
NULL == "<NULL>"
\* The session cookie without a "_user_id": flask_login's anonymous user.
NoUser == 0
\* The browsers (cookie jars) that send requests.
Clients == {"c1", "c2"}
NoClient == "-"

\* data.get(k, d) and "k in data" on a JSON object.
Get(data, k, d) == IF k \in DOMAIN data THEN data[k] ELSE d
Has(data, k) == k \in DOMAIN data

\* datetime.fromisoformat: the strings it accepts and the instant each denotes
\* (instants are counted in days since 2025-01-01T00:00:00); every other
\* string raises ValueError.
IsoInstants ==
    ( "2025-01-01T00:00:00" :> 0 @@ "2025-01-01" :> 0
      @@ "2025-01-02T00:00:00" :> 1 @@ "2025-01-03T00:00:00" :> 2 )
IsIsoFormat(s) == s \in DOMAIN IsoInstants
fromisoformat(s) == IsoInstants[s]
\* datetime.isoformat: the one canonical string of an instant.
isoformat(t) ==
    CASE t = 0 -> "2025-01-01T00:00:00"
      [] t = 1 -> "2025-01-02T00:00:00"
      [] t = 2 -> "2025-01-03T00:00:00"

\* bool(x) of a token column: None and the empty string are falsy.
Truthy(x) == x # NULL /\ x # ""

Max(S) == CHOOSE m \in S : \A x \in S : x <= m

(***************************************************************************)
(* Tables                                                                  *)
(***************************************************************************)
\* The four platform names the handlers know.
Platforms == {"twitch", "twitter", "instagram", "discord"}
\* The if/elif chain with the twitch and twitter assignments exchanged.
TokenColumnCrossed(platform) ==
    CASE platform = "twitch" -> "twitter_token"
      [] platform = "twitter" -> "twitch_token"
      [] platform = "instagram" -> "instagram_token"
      [] platform = "discord" -> "discord_token"

\* The column each platform name is assigned to.
TokenColumn(platform) ==
    CASE platform = "twitch" -> "twitch_token"
      [] platform = "twitter" -> "twitter_token"
      [] platform = "instagram" -> "instagram_token"
      [] platform = "discord" -> "discord_token"

\* User(username=, email=, password_hash=): the token columns start NULL,
\* created_at is the clock at the insert.
NewUser(data, now) ==
    [ username |-> data.username, email |-> data.email,
      password_hash |-> data.password,
      twitch_token |-> NULL, twitter_token |-> NULL,
      instagram_token |-> NULL, discord_token |-> NULL,
      created_at |-> now ]

UserIds == 1..Len(users)
\* register without its email check (lines 65-66 left out).
EmailUnchecked(email) == {}

\* User.query.filter_by(username=...).first(): the ids that match.
ByUsername(name) == {u \in UserIds : users[u].username = name}
ByEmail(email) == {u \in UserIds : users[u].email = email}

\* The columns update_content assigns with data.get(f, content.f).
TextFields ==
    {"title", "content", "content_type", "platforms", "hashtags", "mentions", "files"}
\* The nullable=False columns a request can set to null (a scheduled_for of
\* null never gets as far as the commit: fromisoformat raises on it).
NotNullFields == {"title", "content"}

\* The id SQLite gives the next row of an INTEGER PRIMARY KEY column declared
\* without AUTOINCREMENT: one more than the largest id in use, so the id of a
\* deleted last row is handed out again.
NextContentId ==
    IF DOMAIN contents = {} THEN 1 ELSE Max(DOMAIN contents) + 1

(***************************************************************************)
(* Sessions                                                                *)
(***************************************************************************)
\* current_user.id of the request of client c (NoUser: anonymous).
CurrentUser(c) == session[c]
\* @login_required lets the request through.
Authenticated(c) == CurrentUser(c) # NoUser

\* A response, with the request it answers: the handler, the caller's
\* browser, the URL parameter, the JSON body sent.
Response(op, c, arg, data, status, body) ==
    [op |-> op, client |-> c, arg |-> arg, data |-> data,
     status |-> status, body |-> body]

\* flask_login's unauthorized handler: abort(401), nothing else runs.
Unauthorized(op, c, arg, data) ==
    /\ resp' = Response(op, c, arg, data, 401, "Unauthorized")
    /\ UNCHANGED <<users, contents, session, inflight>>

(***************************************************************************)
(* Init: db.create_all() on an empty database, no cookie, no request yet.  *)
(***************************************************************************)
Init ==
    /\ users = <<>>
    /\ contents = <<>>
    /\ session = [c \in Clients |-> NoUser]
    /\ inflight = {}
    /\ resp = Response("none", NoClient, NULL, NULL, 0, NULL)
    /\ hist = [mine |-> {}, deleted |-> {}, lost |-> {}]

(***************************************************************************)
(* POST /api/auth/register                                                 *)
(***************************************************************************)
register(data, now) ==
    /\ IF ByUsername(data.username) # {}
         THEN /\ resp' = Response("register", NoClient, NULL, data, 400, "Username already exists")
              /\ UNCHANGED users
         ELSE IF ByEmail(data.email) # {}
         THEN /\ resp' = Response("register", NoClient, NULL, data, 400, "Email already exists")
              /\ UNCHANGED users
         ELSE /\ users' = Append(users, NewUser(data, now))
              /\ resp' = Response("register", NoClient, NULL, data, 201, "User registered successfully")
    /\ UNCHANGED <<contents, session, inflight>>

(***************************************************************************)
(* POST /api/auth/login                                                    *)
(***************************************************************************)
\* login that compares no password (line 84 without its second operand).
AnyPassword(u, password) == TRUE

\* "user and user.password_hash == data['password']"
CredentialsMatch(u, password) == users[u].password_hash = password

login(c, data) ==
    LET found == ByUsername(data.username) IN
    /\ IF found # {} /\ CredentialsMatch(CHOOSE u \in found : TRUE, data.password)
         THEN LET u == CHOOSE u \in found : TRUE IN
              /\ session' = [session EXCEPT ![c] = u]
              /\ resp' = Response("login", c, NULL, data, 200,
                             [message |-> "Login successful",
                              user |-> [id |-> u, username |-> users[u].username,
                                        email |-> users[u].email]])
         ELSE /\ resp' = Response("login", c, NULL, data, 401, "Invalid credentials")
              /\ UNCHANGED session
    /\ UNCHANGED <<users, contents, inflight>>

(***************************************************************************)
(* POST /api/auth/logout                                                   *)
(***************************************************************************)
\* logout without @login_required (line 98 left out).
logout_unprotected(c) ==
    /\ session' = [session EXCEPT ![c] = NoUser]
    /\ resp' = Response("logout", c, NULL, NULL, 200, "Logout successful")
    /\ UNCHANGED <<users, contents, inflight>>

logout(c) ==
    IF ~Authenticated(c) THEN Unauthorized("logout", c, NULL, NULL)
    ELSE /\ session' = [session EXCEPT ![c] = NoUser]
         /\ resp' = Response("logout", c, NULL, NULL, 200, "Logout successful")
         /\ UNCHANGED <<users, contents, inflight>>

(***************************************************************************)
(* GET /api/auth/profile                                                   *)
(***************************************************************************)
\* The 'platforms' object of the profile: bool(token) per platform.
PlatformFlags(u) ==
    [ twitch |-> Truthy(users[u].twitch_token),
      twitter |-> Truthy(users[u].twitter_token),
      instagram |-> Truthy(users[u].instagram_token),
      discord |-> Truthy(users[u].discord_token) ]

get_profile(c) ==
    IF ~Authenticated(c) THEN Unauthorized("get_profile", c, NULL, NULL)
    ELSE LET u == CurrentUser(c) IN
         /\ resp' = Response("get_profile", c, NULL, NULL, 200,
                        [id |-> u, username |-> users[u].username,
                         email |-> users[u].email, platforms |-> PlatformFlags(u)])
         /\ UNCHANGED <<users, contents, session, inflight>>

(***************************************************************************)
(* GET /api/content                                                        *)
(***************************************************************************)
\* The query of get_content without its filter_by(user_id=...).
AllIds(uid) == DOMAIN contents

\* filter_by(user_id=uid): the ids of the rows the query selects.
OwnedIds(uid) == {i \in DOMAIN contents : contents[i].user_id = uid}

\* order_by(scheduled_for.desc()).all(): every order of the selected rows in
\* which scheduled_for never increases (rows with equal times come in an
\* order the engine is free to choose).
Listings(uid) ==
    LET ids == OwnedIds(uid)
        n == Cardinality(ids)
    IN { s \in [1..n -> ids] :
           /\ \A i, j \in 1..n : i # j => s[i] # s[j]
           /\ \A i, j \in 1..n :
                i < j => contents[s[i]].scheduled_for >= contents[s[j]].scheduled_for }

\* One element of the JSON list of get_content.
Jsonify(row) ==
    [ id |-> row.id, title |-> row.title, content |-> row.content,
      content_type |-> row.content_type, platforms |-> row.platforms,
      scheduled_for |-> isoformat(row.scheduled_for),
      hashtags |-> row.hashtags, mentions |-> row.mentions, files |-> row.files,
      status |-> row.status, created_at |-> isoformat(row.created_at) ]

get_content(c) ==
    IF ~Authenticated(c) THEN Unauthorized("get_content", c, NULL, NULL)
    ELSE \E s \in Listings(CurrentUser(c)) :
         /\ resp' = Response("get_content", c, NULL, NULL, 200,
                        [i \in DOMAIN s |-> Jsonify(contents[s[i]])])
         /\ UNCHANGED <<users, contents, session, inflight>>

(***************************************************************************)
(* POST /api/content                                                       *)
(***************************************************************************)
\* create_content that passes the payload's status to the constructor.
NewContentWithStatus(id, data, uid, now) ==
    [ id |-> id,
      title |-> data.title,
      content |-> data.content,
      content_type |-> Get(data, "content_type", "text"),
      platforms |-> Get(data, "platforms", "[]"),
      scheduled_for |-> fromisoformat(data.scheduled_for),
      hashtags |-> Get(data, "hashtags", NULL),
      mentions |-> Get(data, "mentions", NULL),
      files |-> Get(data, "files", "[]"),
      status |-> Get(data, "status", "pending"),
      user_id |-> uid,
      created_at |-> now ]

\* ScheduledContent(...) of create_content: status is not passed, so the
\* column default 'pending' applies; created_at is the clock at the insert.
NewContent(id, data, uid, now) ==
    [ id |-> id,
      title |-> data.title,
      content |-> data.content,
      content_type |-> Get(data, "content_type", "text"),
      platforms |-> Get(data, "platforms", "[]"),
      scheduled_for |-> fromisoformat(data.scheduled_for),
      hashtags |-> Get(data, "hashtags", NULL),
      mentions |-> Get(data, "mentions", NULL),
      files |-> Get(data, "files", "[]"),
      status |-> "pending",
      user_id |-> uid,
      created_at |-> now ]

\* What makes create_content raise: a missing required key (KeyError), a
\* scheduled_for that does not parse (ValueError, or TypeError for null), a
\* null in a nullable=False column (IntegrityError at the commit).
CreateRaises(data) ==
    IF {"title", "content", "scheduled_for"} \subseteq DOMAIN data
    THEN ~IsIsoFormat(data.scheduled_for) \/ data.title = NULL \/ data.content = NULL
    ELSE TRUE

create_content(c, data, now) ==
    IF ~Authenticated(c) THEN Unauthorized("create_content", c, NULL, data)
    ELSE IF CreateRaises(data)
    THEN /\ resp' = Response("create_content", c, NULL, data, 500, "Internal Server Error")
         /\ UNCHANGED <<users, contents, session, inflight>>
    ELSE /\ contents' = contents @@
               (NextContentId :> NewContent(NextContentId, data, CurrentUser(c), now))
         /\ resp' = Response("create_content", c, NULL, data, 201,
                        [id |-> NextContentId, message |-> "Content scheduled successfully"])
         /\ UNCHANGED <<users, session, inflight>>

(***************************************************************************)
(* PUT /api/content/<id>                                                   *)
(***************************************************************************)
\* filter_by(id=content_id, user_id=current_user.id).first() finds a row.
Owns(uid, id) == id \in DOMAIN contents /\ contents[id].user_id = uid

\* Lines 172-179 raise: a scheduled_for that does not parse.
AssignRaises(data) == Has(data, "scheduled_for") /\ ~IsIsoFormat(data.scheduled_for)

\* The assignments with line 179 reading the key 'platforms' for files.
AssignedFilesFromPlatforms(row, data) ==
    [ f \in DOMAIN row |->
        IF f = "files" THEN Get(data, "platforms", row[f])
        ELSE IF f \in TextFields THEN Get(data, f, row[f])
        ELSE IF f = "scheduled_for" /\ Has(data, "scheduled_for")
             THEN fromisoformat(data.scheduled_for)
        ELSE row[f] ]

\* Lines 172-179: the loaded object after the eight assignments.
Assigned(row, data) ==
    [ f \in DOMAIN row |->
        IF f \in TextFields THEN Get(data, f, row[f])
        ELSE IF f = "scheduled_for" /\ Has(data, "scheduled_for")
             THEN fromisoformat(data.scheduled_for)
        ELSE row[f] ]

\* A commit that writes the whole loaded object back.
AllColumns(row, obj) == DOMAIN row

\* The columns the session holds as changed at the commit: those whose
\* assigned value differs from the value the query loaded.  The unit of work
\* writes these columns and no others.
Dirty(row, obj) == {f \in DOMAIN row : obj[f] # row[f]}

\* db.session.commit() of update_content for a request that loaded `row` and
\* assigned `obj`, against the table as it is at the commit:
\* UPDATE scheduled_content SET <dirty columns> WHERE id = row.id.
\* No dirty column: no statement.  No row of that id any more: the statement
\* matches nothing (StaleDataError).  A NULL into a nullable=False column:
\* IntegrityError.  Both roll back and end the request with 500.
Flush(table, row, obj) ==
    LET dirty == Dirty(row, obj) IN
    IF dirty = {} THEN [ok |-> TRUE, table |-> table]
    ELSE IF row.id \notin DOMAIN table THEN [ok |-> FALSE, table |-> table]
    ELSE IF \E f \in dirty \cap NotNullFields : obj[f] = NULL
    THEN [ok |-> FALSE, table |-> table]
    ELSE [ok |-> TRUE,
          table |-> [table EXCEPT ![row.id] =
                       [f \in DOMAIN @ |-> IF f \in dirty THEN obj[f] ELSE @[f]]]]

\* The part of update_content after the query found `row`: lines 170-183.
UpdateLoaded(c, id, data, row) ==
    IF AssignRaises(data)
    THEN /\ resp' = Response("update_content", c, id, data, 500, "Internal Server Error")
         /\ UNCHANGED contents
    ELSE LET res == Flush(contents, row, Assigned(row, data)) IN
         /\ contents' = res.table
         /\ resp' = IF res.ok
                    THEN Response("update_content", c, id, data, 200, "Content updated successfully")
                    ELSE Response("update_content", c, id, data, 500, "Internal Server Error")

NotFound(op, c, id, data) ==
    /\ resp' = Response(op, c, id, data, 404, "Content not found")
    /\ UNCHANGED <<users, contents, session, inflight>>

\* The whole handler as one step: no other request runs between its query
\* and its commit.
update_content(c, id, data) ==
    IF ~Authenticated(c) THEN Unauthorized("update_content", c, id, data)
    ELSE IF ~Owns(CurrentUser(c), id) THEN NotFound("update_content", c, id, data)
    ELSE /\ UpdateLoaded(c, id, data, contents[id])
         /\ UNCHANGED <<users, session, inflight>>

\* The handler up to and including its query (lines 163-170): what it
\* loaded stays with the request until its commit.  A browser waits for the
\* answer to its update before it sends the next one.
update_begin(c, id, data) ==
    IF ~Authenticated(c) THEN Unauthorized("update_content", c, id, data)
    ELSE IF ~Owns(CurrentUser(c), id) THEN NotFound("update_content", c, id, data)
    ELSE /\ \A r \in inflight : r.client # c
         /\ inflight' = inflight \cup
               {[client |-> c, user |-> CurrentUser(c), id |-> id, data |-> data,
                 row |-> contents[id]]}
         /\ UNCHANGED <<users, contents, session, resp>>

\* The rest of the handler (lines 172-183), against the table as it is now.
update_commit(r) ==
    /\ r \in inflight
    /\ inflight' = inflight \ {r}
    /\ UpdateLoaded(r.client, r.id, r.data, r.row)
    /\ UNCHANGED <<users, session>>

(***************************************************************************)
(* DELETE /api/content/<id>                                                *)
(***************************************************************************)
delete_content(c, id) ==
    IF ~Authenticated(c) THEN Unauthorized("delete_content", c, id, NULL)
    ELSE IF ~Owns(CurrentUser(c), id) THEN NotFound("delete_content", c, id, NULL)
    ELSE /\ contents' = [i \in DOMAIN contents \ {id} |-> contents[i]]
         /\ resp' = Response("delete_content", c, id, NULL, 200, "Content deleted successfully")
         /\ UNCHANGED <<users, session, inflight>>

(***************************************************************************)
(* POST /api/platforms/connect/<platform>, /disconnect/<platform>          *)
(***************************************************************************)
\* The assignment made to every user's row instead of the caller's.
SetTokenOfAll(u, platform, token) ==
    [v \in DOMAIN users |-> [users[v] EXCEPT ![TokenColumn(platform)] = token]]

\* The if/elif chain of both handlers: the named column of the current
\* user's row is assigned, every other column and row is left alone.
SetToken(u, platform, token) ==
    [users EXCEPT ![u] = [@ EXCEPT ![TokenColumn(platform)] = token]]

connect_platform(c, platform, data) ==
    IF ~Authenticated(c) THEN Unauthorized("connect_platform", c, platform, data)
    ELSE IF platform \notin Platforms
    THEN /\ resp' = Response("connect_platform", c, platform, data, 400, "Invalid platform")
         /\ UNCHANGED <<users, contents, session, inflight>>
    ELSE /\ users' = SetToken(CurrentUser(c), platform, Get(data, "token", NULL))
         /\ resp' = Response("connect_platform", c, platform, data, 200, "connected successfully")
         /\ UNCHANGED <<contents, session, inflight>>

disconnect_platform(c, platform) ==
    IF ~Authenticated(c) THEN Unauthorized("disconnect_platform", c, platform, NULL)
    ELSE IF platform \notin Platforms
    THEN /\ resp' = Response("disconnect_platform", c, platform, NULL, 400, "Invalid platform")
         /\ UNCHANGED <<users, contents, session, inflight>>
    ELSE /\ users' = SetToken(CurrentUser(c), platform, NULL)
         /\ resp' = Response("disconnect_platform", c, platform, NULL, 200, "disconnected successfully")
         /\ UNCHANGED <<contents, session, inflight>>

(***************************************************************************)
(* Requests                                                                *)
(***************************************************************************)
\* The ids a request can name in its URL: those the model hands out and one
\* it never does.
UrlIds(cap) == 1..(cap + 1)

Usernames == {"alice", "bob"}
Emails == {"a@x.io", "b@x.io"}
Passwords == {"pw1", "pw2"}
RegisterData == [username : Usernames, email : Emails, password : Passwords]
LoginData == [username : Usernames, password : Passwords]
Alice == [username |-> "alice", email |-> "a@x.io", password |-> "pw1"]
Bob == [username |-> "bob", email |-> "b@x.io", password |-> "pw2"]
AsAlice == [username |-> "alice", password |-> "pw1"]
AsBob == [username |-> "bob", password |-> "pw2"]

\* The end-to-end payload of the specification, and variations of it.
Post1 == [title |-> "t", content |-> "c", scheduled_for |-> "2025-01-01T00:00:00"]
Post2 == [title |-> "t2", content |-> "c", scheduled_for |-> "2025-01-02T00:00:00",
          status |-> "published"]
PostNoTitle == [content |-> "c", scheduled_for |-> "2025-01-01T00:00:00"]
PostBadTime == [title |-> "t", content |-> "c", scheduled_for |-> "tomorrow"]

\* The connect payloads: a token, an empty token, no token.
Token == [token |-> "tok123"]
EmptyToken == [token |-> ""]
NoToken == [note |-> "x"]

\* The model stops handing out ids above cap: an insert that would need a
\* larger one is not taken (the requests that fail before the insert are).
Fits(c, data, cap) ==
    IF Authenticated(c) /\ ~CreateRaises(data) THEN NextContentId <= cap ELSE TRUE

\* The history of a step, read off its response: a 201 of create_content
\* gives the new id to the caller, a 200 of delete_content takes the id from
\* the caller and records the deletion.  Pairs are <<user id, content id>>.
Observe ==
    hist' =
      IF resp'.op = "create_content" /\ resp'.status = 201
      THEN [hist EXCEPT !.mine = @ \cup {<<session[resp'.client], resp'.body.id>>}]
      ELSE IF resp'.op = "delete_content" /\ resp'.status = 200
      THEN [hist EXCEPT !.mine = @ \ {<<session[resp'.client], resp'.arg>>},
                        !.deleted = @ \cup {<<session[resp'.client], resp'.arg>>}]
      ELSE hist

\* What a step does to the history: kept up to date, or left empty.
History(kept) == IF kept THEN Observe ELSE UNCHANGED hist

\* One request of any handler, the whole handler in one step, with its
\* caller, JSON body, URL parameter and clock reading drawn from the given
\* sets, and with the history kept or not.
Requests(Cl, RegD, LogD, CreD, cap, Ids, UpdD, ConnD, Plats, Clock, kept) ==
    \/ \E d \in RegD, now \in Clock : register(d, now) /\ History(kept)
    \/ \E c \in Cl, d \in LogD : login(c, d) /\ History(kept)
    \/ \E c \in Cl : logout(c) /\ History(kept)
    \/ \E c \in Cl : get_profile(c) /\ History(kept)
    \/ \E c \in Cl : get_content(c) /\ History(kept)
    \/ \E c \in Cl, d \in CreD, now \in Clock :
          Fits(c, d, cap) /\ create_content(c, d, now) /\ History(kept)
    \/ \E c \in Cl, id \in Ids, d \in UpdD : update_content(c, id, d) /\ History(kept)
    \/ \E c \in Cl, id \in Ids : delete_content(c, id) /\ History(kept)
    \/ \E c \in Cl, pd \in ConnD : connect_platform(c, pd[1], pd[2]) /\ History(kept)
    \/ \E c \in Cl, p \in Plats : disconnect_platform(c, p) /\ History(kept)

\* Spec: accounts and sessions in full; content and tokens with few inputs.
Next ==
    Requests(Clients, RegisterData, LoginData, {Post2, PostNoTitle}, FewContentIds,
             UrlIds(FewContentIds), {[title |-> "t", status |-> "published"]},
             {<<"twitch", Token>>, <<"myspace", Token>>}, {"twitch", "myspace"}, {0}, FALSE)

Spec == Init /\ [][Next]_vars

\* SpecContent: two users in two browsers, and their rows.
Retitle ==
    [title |-> "t2", scheduled_for |-> "2025-01-02T00:00:00", status |-> "published"]

NextContent ==
    Requests(Clients, {Alice, Bob}, {AsAlice, AsBob},
             {Post1, Post2, PostBadTime}, MaxContentId,
             UrlIds(MaxContentId), {Retitle},
             {<<"twitch", Token>>, <<"myspace", Token>>}, {"twitch", "myspace"}, {0}, FALSE)

SpecContent == Init /\ [][NextContent]_vars

\* SpecList: two users taking turns in one browser, with the history kept.
NextList ==
    Requests({"c1"}, {Alice, Bob}, {AsAlice, AsBob},
             {Post1}, MaxContentId,
             UrlIds(MaxContentId), {Retitle},
             {<<"myspace", Token>>}, {"myspace"}, {0}, TRUE)

SpecList == Init /\ [][NextList]_vars

\* SpecPlatforms: the four platforms and a fifth name, two users taking turns
\* in one browser; the empty and the missing token are tried on twitch.
PlatformNames == Platforms \cup {"myspace"}

NextPlatforms ==
    Requests({"c1"}, {Alice, Bob}, {AsAlice, AsBob},
             {Post1}, FewContentIds,
             UrlIds(FewContentIds), {[title |-> "t"]},
             {<<p, Token>> : p \in PlatformNames}
                 \cup {<<"twitch", EmptyToken>>, <<"twitch", NoToken>>},
             PlatformNames, {0}, FALSE)

SpecPlatforms == Init /\ [][NextPlatforms]_vars

\* SpecUpdate: partial updates in full, by one of two users.  Row 1 is the
\* row updated (and deleted); the other rows are there to be left alone.
NewValues ==
    [ title |-> "T", content |-> "C", content_type |-> "video",
      platforms |-> "[\"twitch\"]", scheduled_for |-> "2025-01-03T00:00:00",
      hashtags |-> "#a", mentions |-> "@b", files |-> "[\"f.png\"]" ]

\* NewValues cut down to the keys in K.
Only(K) == [f \in K |-> NewValues[f]]

\* The update payloads: none of the eight keys, each one alone, all but one,
\* all; a time written another way; nulls; keys update_content does not
\* read; a time that does not parse.
UpdateData ==
    {Only({})} \cup {Only({f}) : f \in DOMAIN NewValues}
        \cup {Only(DOMAIN NewValues \ {f}) : f \in {"title", "hashtags", "scheduled_for"}}
        \cup {Only(DOMAIN NewValues)}
        \cup { [scheduled_for |-> "2025-01-01"],
               [hashtags |-> NULL, mentions |-> "@b"],
               [title |-> NULL, content |-> "C"],
               [title |-> "T", status |-> "published", user_id |-> "2", id |-> "9",
                created_at |-> "2025-01-03T00:00:00"],
               [title |-> "T", scheduled_for |-> "tomorrow"] }

NextUpdate ==
    Requests({"c1"}, {Alice, Bob}, {AsAlice},
             {Post1}, MaxContentId,
             {1}, UpdateData,
             {<<"myspace", Token>>}, {"myspace"}, {0}, FALSE)

SpecUpdate == Init /\ [][NextUpdate]_vars

\* SpecRace: update_content in its two steps, so that the requests of one
\* user in two browsers for row 1 interleave with each other, with the row's
\* deletion and with the creation of its successor.
RaceData == { [title |-> "t"], [title |-> "T"], [title |-> "T2"], [content |-> "C"] }

\* The request the step commits.
Committed == CHOOSE r \in inflight : r \notin inflight'

\* The history of a commit: the fields it wrote in which the row no longer
\* had the value this request had loaded.
ObserveCommit ==
    hist' = [hist EXCEPT !.lost =
               IF Committed.id \in DOMAIN contents
               THEN {f \in DOMAIN Committed.row :
                       /\ contents[Committed.id][f] # Committed.row[f]
                       /\ contents'[Committed.id][f] # contents[Committed.id][f]}
               ELSE {}]

NextRace ==
    \/ \E now \in {0} : register(Alice, now) /\ UNCHANGED hist
    \/ \E c \in Clients : login(c, AsAlice) /\ UNCHANGED hist
    \/ \E c \in Clients, now \in {0} :
          Fits(c, Post1, FewContentIds) /\ create_content(c, Post1, now)
              /\ UNCHANGED hist
    \/ \E c \in Clients : delete_content(c, 1) /\ UNCHANGED hist
    \/ \E c \in Clients, d \in RaceData : update_begin(c, 1, d) /\ UNCHANGED hist
    \/ \E r \in inflight : update_commit(r) /\ ObserveCommit

SpecRace == Init /\ [][NextRace]_vars

\* SpecReuse: update_content in its two steps again, now with two users, each
\* in a browser of their own, so that between the query and the commit of
\* an update of row 1 the row can be deleted and its id given to a row of
\* the other user.
BrowserOf == [alice |-> "c1", bob |-> "c2"]

NextReuse ==
    \/ \E d \in {Alice, Bob}, now \in {0} : register(d, now) /\ UNCHANGED hist
    \/ \E d \in {AsAlice, AsBob} : login(BrowserOf[d.username], d) /\ UNCHANGED hist
    \/ \E c \in Clients, now \in {0} :
          Fits(c, Post1, FewContentIds) /\ create_content(c, Post1, now)
              /\ UNCHANGED hist
    \/ \E c \in Clients : delete_content(c, 1) /\ UNCHANGED hist
    \/ \E c \in Clients : update_begin(c, 1, [title |-> "T"]) /\ UNCHANGED hist
    \/ \E r \in inflight : update_commit(r) /\ UNCHANGED hist

SpecReuse == Init /\ [][NextReuse]_vars

(***************************************************************************)
(* C4: usernames and emails are unique; a conflicting Register adds nothing *)
(***************************************************************************)
\* The handlers behind @login_required.
ProtectedOps ==
    {"logout", "get_profile", "get_content", "create_content", "update_content",
     "delete_content", "connect_platform", "disconnect_platform"}

UniqueUsers ==
    \A u, v \in UserIds :
        u # v => users[u].username # users[v].username /\ users[u].email # users[v].email

\* The last request was a register whose username or email a stored user has.
RegisterConflicts ==
    /\ resp'.op = "register"
    /\ \E u \in UserIds :
          users[u].username = resp'.data.username \/ users[u].email = resp'.data.email

\* C4: in every reachable state no two users share a username or an email,
\* and a register whose username or email is already stored answers 400 and
\* leaves the user table (so also the first user's credential) as it was.
C4_Theorem ==
    [][ /\ UniqueUsers'
        /\ RegisterConflicts => (resp'.status = 400 /\ users' = users) ]_vars

\* A second register of a stored username, with another password, was refused
\* and the one user of that name still has the first password.
C4_Witness ==
    /\ resp.op = "register" /\ resp.status = 400
    /\ \E u \in UserIds :
          /\ users[u].username = resp.data.username
          /\ users[u].password_hash # resp.data.password
          /\ ByUsername(resp.data.username) = {u}

(***************************************************************************)
(* C5: login                                                               *)
(***************************************************************************)
\* A stored user has the username and, exactly, the password of the request.
Matches(data) ==
    \E u \in UserIds :
        users[u].username = data.username /\ users[u].password_hash = data.password

LoginOutcome ==
    resp.op = "login" =>
        /\ resp.status \in {200, 401}
        /\ resp.status = 200 <=> Matches(resp.data)
        /\ resp.status = 200 =>
              /\ session[resp.client] \in UserIds
              /\ users[session[resp.client]].username = resp.data.username
              /\ resp.body.user.id = session[resp.client]

\* C5 as amended: login answers 200 exactly when a stored user has that
\* username and that password, and then the caller's session is bound to that
\* user's id; otherwise it answers 401 and every session, the caller's
\* included, is what it was before the call.
C5_Theorem ==
    [][ /\ LoginOutcome'
        /\ (resp'.op = "login" /\ resp'.status = 401) => session' = session
        /\ resp'.op = "login" =>
              \A c \in Clients \ {resp'.client} : session'[c] = session[c] ]_vars

\* A login with a wrong password was refused while the caller was logged in.
C5_Witness ==
    /\ resp.op = "login" /\ resp.status = 401
    /\ ByUsername(resp.data.username) # {}
    /\ session[resp.client] # NoUser

\* C5 as claimed: after a refused login the caller has no session.
C5_Original ==
    (resp.op = "login" /\ resp.status = 401) => session[resp.client] = NoUser

(***************************************************************************)
(* C6: the protected handlers without a session                            *)
(***************************************************************************)
\* C6: a request to a protected handler from a client whose session holds no
\* user answers 401 and changes no user, no content row and no session; and
\* after any logout request the caller's session holds no user.
C6_Theorem ==
    [][ /\ (resp'.op \in ProtectedOps /\ session[resp'.client] = NoUser) =>
              /\ resp'.status = 401
              /\ UNCHANGED <<users, contents, session, inflight>>
        /\ resp'.op = "logout" => session'[resp'.client] = NoUser ]_vars

\* A client that logged out was refused a delete of a row that is there.
C6_Witness ==
    /\ resp.op = "delete_content" /\ resp.status = 401
    /\ resp.arg \in DOMAIN contents
    /\ session[resp.client] = NoUser
    /\ \E c \in Clients : c # resp.client /\ session[c] # NoUser

(***************************************************************************)
(* C10: status                                                             *)
(***************************************************************************)
\* C10: every stored content row has status 'pending', whatever the create
\* and update payloads held.
C10_Theorem ==
    \A id \in DOMAIN contents : contents[id].status = "pending"

\* A row created from a payload with status 'published' was then updated
\* from a payload with status 'published'.
C10_Witness ==
    /\ resp.op = "update_content" /\ resp.status = 200
    /\ resp.arg \in DOMAIN contents
    /\ contents[resp.arg].title = "t"
    /\ contents[resp.arg].status = "pending"

(***************************************************************************)
(* C1: the list of a user is that user's rows                              *)
(***************************************************************************)
ListedIds == {resp.body[i].id : i \in DOMAIN resp.body}
Listed == resp.op = "get_content" /\ resp.status = 200

\* The list holds, once each, exactly the rows stored with the caller as
\* owner, as they are stored.
ListIsOwnRows ==
    Listed =>
        /\ \A i, j \in DOMAIN resp.body : i # j => resp.body[i].id # resp.body[j].id
        /\ ListedIds = {id \in DOMAIN contents : contents[id].user_id = session[resp.client]}
        /\ \A i \in DOMAIN resp.body : resp.body[i] = Jsonify(contents[resp.body[i].id])

\* The list holds exactly the ids the caller created and has not deleted
\* since creating them.
ListIsHistory ==
    Listed => ListedIds = {id \in UrlIds(MaxContentId) : <<session[resp.client], id>> \in hist.mine}

\* C1 as amended: a list answered to a session of user A holds exactly the
\* rows stored with owner A, so no row of another user; it holds every id A
\* created and has not deleted since; and an id A deleted is in it only when
\* a later create of A was given that id again.
C1_Theorem == ListIsOwnRows /\ ListIsHistory

\* Both users have rows, the caller has deleted one, and the list holds the
\* caller's row and not the other user's.
C1_Witness ==
    /\ Listed /\ ListedIds # {}
    /\ \E id \in DOMAIN contents : contents[id].user_id # session[resp.client]
    /\ \E id \in UrlIds(MaxContentId) : <<session[resp.client], id>> \in hist.deleted

\* C1 as claimed: the list holds no id that the caller has deleted.
C1_Original ==
    Listed => \A id \in ListedIds : <<session[resp.client], id>> \notin hist.deleted

(***************************************************************************)
(* C2: update and delete of an id that is not the caller's                  *)
(***************************************************************************)
\* The step answered an update or a delete of a logged-in caller for an id
\* that named no row of the caller when the request came in.
NotOwnRequest ==
    /\ resp'.op \in {"update_content", "delete_content"}
    /\ session[resp'.client] # NoUser
    /\ ~(resp'.arg \in DOMAIN contents
          /\ contents[resp'.arg].user_id = session[resp'.client])

\* The row of this id was changed or removed by the step.
Touched(id) == id \notin DOMAIN contents' \/ contents'[id] # contents[id]

\* C2 for requests that run one at a time: an update or delete of an id
\* that names no row of the caller (never created, deleted, or another
\* user's) answers 404 'Content not found', the same for all three, and
\* changes no content row and no user; and a step changes or removes a
\* stored row only as an update or delete of that id by a session of its
\* owner.
C2_OneAtATime ==
    [][ /\ NotOwnRequest =>
              /\ resp'.status = 404 /\ resp'.body = "Content not found"
              /\ UNCHANGED <<users, contents>>
        /\ \A id \in DOMAIN contents :
              Touched(id) =>
                /\ resp'.op \in {"update_content", "delete_content"}
                /\ resp'.arg = id
                /\ session[resp'.client] = contents[id].user_id ]_vars

\* An update of another user's row was answered 404.
C2_Refused ==
    /\ resp.op = "update_content" /\ resp.status = 404
    /\ session[resp.client] # NoUser
    /\ resp.arg \in DOMAIN contents
    /\ contents[resp.arg].user_id # session[resp.client]

\* The step is the commit of an update request.
Commits == \E r \in inflight : r \notin inflight'

\* The user whose request the step answers.
Requester == IF Commits THEN Committed.user ELSE session[resp'.client]

\* C2 as claimed, with the requests of the users interleaving: a step
\* changes or removes a stored row only in answer to a request of the row's
\* owner, so a row of B is never changed or removed by A.
C2_Original ==
    [][ \A id \in DOMAIN contents : Touched(id) => Requester = contents[id].user_id ]_vars

\* Alice's update was answered 200 and its title is in a row of Bob.
C2_Stolen ==
    /\ resp.op = "update_content" /\ resp.status = 200 /\ resp.client = "c1"
    /\ resp.arg \in DOMAIN contents
    /\ users[contents[resp.arg].user_id].username = "bob"
    /\ contents[resp.arg].title = "T"

(***************************************************************************)
(* C7, C8: platform tokens                                                 *)
(***************************************************************************)
\* The token column the User model (lines 27-30) gives each platform name.
ColumnOf ==
    [ twitch |-> "twitch_token", twitter |-> "twitter_token",
      instagram |-> "instagram_token", discord |-> "discord_token" ]
TokenColumns == {ColumnOf[p] : p \in Platforms}

\* The stored token of user u for platform p is a non-empty string.
Connected(u, p) == users[u][ColumnOf[p]] # NULL /\ users[u][ColumnOf[p]] # ""

\* The same of the table after the step.
ConnectedAfter(u, p) == users'[u][ColumnOf[p]] # NULL /\ users'[u][ColumnOf[p]] # ""

\* The step answered 200 to a connect (disconnect) request.
Connects == resp'.op = "connect_platform" /\ resp'.status = 200
Disconnects == resp'.op = "disconnect_platform" /\ resp'.status = 200

\* The token the connect request of the step carried is a non-empty string.
SentToken ==
    /\ "token" \in DOMAIN resp'.data
    /\ resp'.data.token # NULL /\ resp'.data.token # ""

\* A profile reports, for each platform, whether the stored token of the
\* caller is non-empty.
ProfileShowsTokens ==
    (resp.op = "get_profile" /\ resp.status = 200) =>
        \A p \in Platforms :
            resp.body.platforms[p] = Connected(session[resp.client], p)

\* C7 as amended: for each of the four platforms p, after a user's
\* ConnectPlatform(p, token) with a non-empty token the user's profile
\* reports p true, and it stays true until that user calls
\* DisconnectPlatform(p) or ConnectPlatform(p) with an empty or missing
\* token; after either it reports false, until that user's next
\* ConnectPlatform(p) with a non-empty token.
C7_Theorem ==
    [][ /\ ProfileShowsTokens'
        /\ Connects => (ConnectedAfter(session[resp'.client], resp'.arg) <=> SentToken)
        /\ Disconnects => ~ConnectedAfter(session[resp'.client], resp'.arg)
        /\ \A u \in UserIds, p \in Platforms :
              (Connected(u, p) # ConnectedAfter(u, p)) =>
                  /\ Connects \/ Disconnects
                  /\ session[resp'.client] = u /\ resp'.arg = p ]_vars

\* A profile, asked after the other user connected and disconnected discord,
\* reports the caller's discord connected and twitch not.
C7_Witness ==
    /\ resp.op = "get_profile" /\ resp.status = 200
    /\ resp.body.platforms.discord /\ ~resp.body.platforms.twitch
    /\ \E u \in UserIds : u # session[resp.client] /\ Connected(u, "instagram")
                                                    /\ ~Connected(u, "discord")

\* C7 as claimed: after a ConnectPlatform(p, token) that answered 200 the
\* caller's profile reports p true.
C7_Original ==
    (resp.op = "connect_platform" /\ resp.status = 200) =>
        Connected(session[resp.client], resp.arg)

\* The step leaves every column of every user alone, but perhaps this one.
OnlyToken(u, col) ==
    /\ Len(users') = Len(users)
    /\ \A v \in UserIds : \A f \in DOMAIN users[v] :
          (v # u \/ f # col) => users'[v][f] = users[v][f]

\* C8: a connect or disconnect of a logged-in caller with a name outside
\* the four answers 400 'Invalid platform' and changes no user and no content
\* row; with one of the four it answers 200 and changes at most that
\* platform's token of the caller, no other token, no other user, no content
\* row (a disconnect leaves that token NULL, a connect leaves the token of
\* the request, or NULL when it carries none).
C8_Theorem ==
    [][ (resp'.op \in {"connect_platform", "disconnect_platform"}
           /\ session[resp'.client] # NoUser) =>
          IF resp'.arg \notin {"twitch", "twitter", "instagram", "discord"}
          THEN /\ resp'.status = 400 /\ resp'.body = "Invalid platform"
               /\ UNCHANGED <<users, contents, session>>
          ELSE /\ resp'.status = 200
               /\ OnlyToken(session[resp'.client], ColumnOf[resp'.arg])
               /\ users'[session[resp'.client]][ColumnOf[resp'.arg]] =
                     IF resp'.op = "connect_platform" /\ "token" \in DOMAIN resp'.data
                     THEN resp'.data.token ELSE NULL
               /\ UNCHANGED <<contents, session>> ]_vars

\* ConnectPlatform("myspace") was answered 400 while both users have tokens
\* stored and a content row is there.
C8_Witness ==
    /\ resp.op = "connect_platform" /\ resp.arg = "myspace" /\ resp.status = 400
    /\ DOMAIN contents # {}
    /\ Len(users) = 2
    /\ Connected(session[resp.client], "twitch")
    /\ \E u \in UserIds : u # session[resp.client] /\ Connected(u, "twitter")

(***************************************************************************)
(* C3: a successful update writes the fields of its payload and no other   *)
(***************************************************************************)
\* The seven fields a payload sets as given, and the eighth, set as parsed.
PlainFields ==
    {"title", "content", "content_type", "platforms", "hashtags", "mentions", "files"}
KeptFields == {"id", "status", "user_id", "created_at"}

\* The step answered 200 to an update.
Updates == resp'.op = "update_content" /\ resp'.status = 200

\* The instant an ISO-8601 string of the model's requests denotes.
InstantOf(str) ==
    CASE str \in {"2025-01-01T00:00:00", "2025-01-01"} -> 0
      [] str = "2025-01-02T00:00:00" -> 1
      [] str = "2025-01-03T00:00:00" -> 2

\* C3: after an update answered 200, each of title, content, content_type,
\* platforms, hashtags, mentions, files of the row has the payload's value
\* if the payload has the key and its value from before if not;
\* scheduled_for is the instant the payload's string denotes, or as before;
\* id, status, user_id and created_at of the row, every other row, the set
\* of rows and every user are as before.
C3_Theorem ==
    [][ Updates =>
          /\ resp'.arg \in DOMAIN contents
          /\ DOMAIN contents' = DOMAIN contents
          /\ \A f \in PlainFields :
                contents'[resp'.arg][f] =
                    IF f \in DOMAIN resp'.data THEN resp'.data[f]
                    ELSE contents[resp'.arg][f]
          /\ contents'[resp'.arg].scheduled_for =
                    IF "scheduled_for" \in DOMAIN resp'.data
                    THEN InstantOf(resp'.data.scheduled_for)
                    ELSE contents[resp'.arg].scheduled_for
          /\ \A f \in KeptFields : contents'[resp'.arg][f] = contents[resp'.arg][f]
          /\ \A id \in DOMAIN contents \ {resp'.arg} : contents'[id] = contents[id]
          /\ users' = users ]_vars

\* The payload {title} was written to a row whose other fields had been
\* updated before, next to another row: the title is the payload's, the
\* other fields are still the updated ones.
C3_Witness ==
    /\ resp.op = "update_content" /\ resp.status = 200
    /\ resp.data = Only({"title"})
    /\ Cardinality(DOMAIN contents) = 2
    /\ contents[resp.arg].title = "T"
    /\ contents[resp.arg].content_type = "video"
    /\ contents[resp.arg].scheduled_for = 2
    /\ contents[resp.arg].files = "[\"f.png\"]"
    /\ contents[resp.arg].hashtags = NULL
    /\ contents[resp.arg].content = "c"

(***************************************************************************)
(* C9: interleaved updates of one row                                      *)
(***************************************************************************)
\* The fields in which the payload of request r differs from the row as r
\* loaded it.
Changes(r) ==
    {f \in PlainFields \cap DOMAIN r.data : r.data[f] # r.row[f]}
        \cup {f \in {"scheduled_for"} \cap DOMAIN r.data :
                InstantOf(r.data[f]) # r.row[f]}

\* The value the payload of r gives field f.
Sent(r, f) == IF f = "scheduled_for" THEN InstantOf(r.data[f]) ELSE r.data[f]

\* C9 as amended: the commit of an update is answered 200 whatever other
\* requests committed to the row since this one loaded it (500 only if the
\* row is gone and the payload changes something); it writes the fields in
\* which its payload differs from the row as this request loaded it and
\* leaves every other field as the row has it now.  So of two interleaved
\* updates that write the same field the later commit replaces the earlier
\* one's value, and a payload value equal to the value loaded is not written
\* even if the row has changed since.
C9_Theorem ==
    [][ Commits =>
          LET r == Committed IN
          /\ resp'.op = "update_content" /\ resp'.arg = r.id /\ resp'.data = r.data
          /\ IF Changes(r) = {}
             THEN resp'.status = 200 /\ contents' = contents
             ELSE IF r.id \notin DOMAIN contents
             THEN resp'.status = 500 /\ contents' = contents
             ELSE /\ resp'.status = 200
                  /\ DOMAIN contents' = DOMAIN contents
                  /\ \A f \in DOMAIN contents[r.id] :
                        contents'[r.id][f] =
                            IF f \in Changes(r) THEN Sent(r, f) ELSE contents[r.id][f]
                  /\ \A id \in DOMAIN contents \ {r.id} : contents'[id] = contents[id]
          /\ UNCHANGED <<users, session>> ]_vars

\* Two updates were in flight together; the second to commit was answered
\* 200 and replaced a value the first had committed after the second's query.
C9_Witness ==
    /\ resp.op = "update_content" /\ resp.status = 200
    /\ hist.lost # {}

\* C9 as claimed: after the commit of an update answered 200 the row has the
\* values of that commit's payload.
C9_Original ==
    [][ (Commits /\ resp'.status = 200 /\ Committed.id \in DOMAIN contents') =>
          \A f \in PlainFields \cap DOMAIN Committed.data :
              contents'[Committed.id][f] = Committed.data[f] ]_vars

====
